---- MODULE Spec2Model ----
(***************************************************************************)
(* The sales dashboard of src/app.py as a state machine.                   *)
(*                                                                         *)
(* The script is re-executed from top to bottom on every widget            *)
(* interaction.  The state is the cached result of load_data, the three    *)
(* widget values, the filtered frame df and the values the last execution  *)
(* computed.  Each action is one interaction followed by the whole script. *)
(*                                                                         *)
(* Numbers: ValueNp and every sum are integers; every quotient the script  *)
(* computes is kept as an exact fraction <<numerator, denominator>> in     *)
(* lowest terms, so that no equality below holds by rounding.              *)
(***************************************************************************)
EXTENDS Integers, Sequences, FiniteSets, TLC

VARIABLES
    cache,            \* the frame load_data returned (st.cache_data)
    tie_break,        \* how this build's sort orders equal values
    client_type,      \* multiselect "Client Type": a set of values
    date_range,       \* date_input: <<start date, end date>>
    forecast_months,  \* slider "Forecast Horizon (Months)"
    df,               \* the filtered frame the last execution bound to df
    out               \* what the last execution computed

vars == <<cache, tie_break, client_type, date_range, forecast_months, df, out>>

----------------------------------------------------------------------------
(* Bounds of the model *)

MaxRows == 2          \* rows of sales.parquet, specification Spec
MaxHistory == 3       \* monthly buckets, specification SpecForecast
MaxInvoiceRows == 3   \* rows, specification SpecKpi
NumProducts == 11     \* distinct products, specification SpecTop

(* Program constants *)

Span == 3             \* ts.ewm(span=3)
TopN == 10            \* .head(10)
MinHorizon == 3       \* st.slider(..., 3, 12, 6)
MaxHorizon == 12
DefaultHorizon == 6

----------------------------------------------------------------------------
(* Values *)

NaN == "NaN"          \* missing value of an object column
NaT == <<>>           \* missing cell of a coerced column (NaT / NaN)

Abs(x) == IF x < 0 THEN -x ELSE x
Min2(a, b) == IF a <= b THEN a ELSE b

RECURSIVE Gcd(_, _)
Gcd(a, b) == IF b = 0 THEN a ELSE Gcd(b, a % b)

Sign(x) == IF x > 0 THEN 1 ELSE IF x < 0 THEN -1 ELSE 0

\* Floating-point division n / d, exact.  d = 0 gives inf, -inf or nan as
\* <<1, 0>>, <<-1, 0>>, <<0, 0>> (numpy float64 division does not raise).
Frac(n, d) ==
    IF d = 0 THEN <<Sign(n), 0>>
    ELSE LET g == Gcd(Abs(n), Abs(d))
         IN  <<Sign(d) * (n \div g), Abs(d) \div g>>

FAdd(a, b) == Frac(a[1] * b[2] + b[1] * a[2], a[2] * b[2])
FMul(a, b) == Frac(a[1] * b[1], a[2] * b[2])
FDiv(a, b) == Frac(a[1] * b[2], a[2] * b[1])
FInt(n) == <<n, 1>>

----------------------------------------------------------------------------
(* Timestamps <<year, month, day, hour>>, dates <<year, month, day>>,      *)
(* monthly periods as pandas keeps them: months since 1970-01.             *)

TsLt(a, b) ==
    \/ a[1] < b[1]
    \/ a[1] = b[1] /\ a[2] < b[2]
    \/ a[1] = b[1] /\ a[2] = b[2] /\ a[3] < b[3]
    \/ a[1] = b[1] /\ a[2] = b[2] /\ a[3] = b[3] /\ a[4] < b[4]

TsLeq(a, b) == a = b \/ TsLt(a, b)

\* Timestamp.date(), what st.date_input keeps of a default value
DateOf(t) == <<t[1], t[2], t[3]>>

\* pd.to_datetime(date): midnight of that day
to_datetime(d) == <<d[1], d[2], d[3], 0>>

\* Series.dt.to_period("M")
to_period(t) == (t[1] - 1970) * 12 + (t[2] - 1)

\* PeriodIndex.to_timestamp(): first instant of the month
to_timestamp(p) == <<1970 + (p \div 12), (p % 12) + 1, 1, 0>>

MonthBeginNoRoll(t) == <<t[1], t[2] + 1, 1, t[4]>>

\* t + pd.offsets.MonthBegin(): the next first-of-month after t
MonthBegin(t) ==
    IF t[2] = 12 THEN <<t[1] + 1, 1, 1, t[4]>> ELSE <<t[1], t[2] + 1, 1, t[4]>>

RECURSIVE date_range_MS(_, _)
\* pd.date_range(start=start, periods=periods, freq="MS"), start a month start
date_range_MS(start, periods) ==
    IF periods = 0 THEN <<>>
    ELSE <<start>> \o date_range_MS(MonthBegin(start), periods - 1)

----------------------------------------------------------------------------
(* Frames: sequences of rows *)

Rows(frame) == {frame[i] : i \in 1..Len(frame)}

Row(no, date, value, ct, dist, prod) ==
    [InvoiceNo |-> no, InvoiceDate |-> date, ValueNp |-> value,
     ClientType |-> ct, DistributorName |-> dist, ProductName |-> prod]

\* pd.to_datetime(errors="coerce") / pd.to_numeric(errors="coerce") on a raw
\* cell: <<x>> is a cell that parses to x, anything else becomes missing.
coerce(cell) == IF Len(cell) = 1 THEN cell ELSE NaT

\* load_data: coerce both columns, then dropna(subset=[InvoiceDate, ValueNp])
load_data(raw) ==
    LET coerced == [i \in 1..Len(raw) |->
                      [raw[i] EXCEPT !.InvoiceDate = coerce(raw[i].InvoiceDate),
                                     !.ValueNp = coerce(raw[i].ValueNp)]]
        kept == SelectSeq(coerced,
                          LAMBDA r : r.InvoiceDate # NaT /\ r.ValueNp # NaT)
    IN  [i \in 1..Len(kept) |->
           [kept[i] EXCEPT !.InvoiceDate = kept[i].InvoiceDate[1],
                           !.ValueNp = kept[i].ValueNp[1]]]

\* Series.unique(): the distinct values, the missing one included
unique(frame, col) == {frame[i][col] : i \in 1..Len(frame)}

\* Series.min() / Series.max() of InvoiceDate, frame not empty
MinDate(frame) ==
    CHOOSE t \in {r.InvoiceDate : r \in Rows(frame)} :
        \A r \in Rows(frame) : TsLeq(t, r.InvoiceDate)
MaxDate(frame) ==
    CHOOSE t \in {r.InvoiceDate : r \in Rows(frame)} :
        \A r \in Rows(frame) : TsLeq(r.InvoiceDate, t)

isinEmptyMeansAll(v, values) == values = {} \/ v \in values

\* Series.isin(values)
isin(v, values) == v \in values

\* Series.between(left, right), inclusive="both"
between(t, left, right) == TsLeq(left, t) /\ TsLeq(t, right)

\* df[(df.ClientType.isin(client_type)) & (df.InvoiceDate.between(...))]
FilterFrame(frame, ct, dr) ==
    SelectSeq(frame,
              LAMBDA r : /\ isin(r.ClientType, ct)
                         /\ between(r.InvoiceDate,
                                    to_datetime(dr[1]), to_datetime(dr[2])))

RECURSIVE SumValueNp(_)
\* frame["ValueNp"].sum()
SumValueNp(frame) ==
    IF frame = <<>> THEN 0 ELSE Head(frame).ValueNp + SumValueNp(Tail(frame))

nuniqueCountRows(frame, col) == Len(frame)

\* frame[col].nunique(): distinct values, the missing one not counted
nunique(frame, col) == Cardinality(unique(frame, col) \ {NaN})

\* frame.groupby(col)["ValueNp"].sum(): one total per key; rows whose key is
\* missing belong to no group (dropna=True)
groupby_sum(frame, col) ==
    [k \in unique(frame, col) \ {NaN} |->
        SumValueNp(SelectSeq(frame, LAMBDA r : r[col] = k))]


RECURSIVE SortAsc(_)
\* the elements of a set of integers, ascending
SortAsc(S) ==
    IF S = {} THEN <<>>
    ELSE LET m == CHOOSE x \in S : \A y \in S : x <= y
         IN  <<m>> \o SortAsc(S \ {m})

RECURSIVE EncounterOrder(_, _)
\* the distinct elements of a sequence in the order of their first occurrence
EncounterOrder(s, seen) ==
    IF s = <<>> THEN <<>>
    ELSE IF Head(s) \in seen THEN EncounterOrder(Tail(s), seen)
    ELSE <<Head(s)>> \o EncounterOrder(Tail(s), seen \cup {Head(s)})

PeriodColumn(frame) == [i \in 1..Len(frame) |-> to_period(frame[i].InvoiceDate)]

period_index_unsorted(frame) == EncounterOrder(PeriodColumn(frame), {})

\* the index of frame.groupby(InvoiceDate.dt.to_period("M")): the periods
\* present, ascending (groupby sorts its keys)
period_index(frame) == SortAsc({PeriodColumn(frame)[i] : i \in 1..Len(frame)})

\* monthly_sales = df.groupby(df.InvoiceDate.dt.to_period("M")).ValueNp.sum()
groupby_month(frame) ==
    LET idx == period_index(frame)
    IN  [i \in 1..Len(idx) |->
           [period |-> idx[i],
            total |-> SumValueNp(SelectSeq(frame,
                         LAMBDA r : to_period(r.InvoiceDate) = idx[i]))]]

\* Product names in lexicographic order
ProductNames ==
    <<"P01", "P02", "P03", "P04", "P05", "P06", "P07",
      "P08", "P09", "P10", "P11", "P12", "P13">>

NameRank(p) == CHOOSE i \in 1..Len(ProductNames) : ProductNames[i] = p

\* df.groupby("ProductName").ValueNp.sum(): totals in ascending key order
groupby_product(frame) ==
    LET sums == groupby_sum(frame, "ProductName")
        idx == SortAsc({NameRank(p) : p \in DOMAIN sums})
    IN  [i \in 1..Len(idx) |->
           [ProductName |-> ProductNames[idx[i]],
            ValueNp |-> sums[ProductNames[idx[i]]]]]

RemoveAt(s, i) == SubSeq(s, 1, i - 1) \o SubSeq(s, i + 1, Len(s))

RECURSIVE SortBy(_, _, _)
SortBy(s, tb, sgn) ==
    IF s = <<>> THEN <<>>
    ELSE LET best == {i \in 1..Len(s) :
                         \A j \in 1..Len(s) :
                             sgn * s[i].ValueNp >= sgn * s[j].ValueNp}
             pick == IF tb = "stable"
                     THEN CHOOSE i \in best : \A j \in best : i <= j
                     ELSE CHOOSE i \in best : \A j \in best : i >= j
         IN  <<s[pick]>> \o SortBy(RemoveAt(s, pick), tb, sgn)

sort_values_ascending(s, tb) == SortBy(s, tb, -1)

\* Series.sort_values(ascending=False), default kind="quicksort": the result
\* is in descending order; the order of equal values is the build's (tb):
\* "stable" keeps them as they were, "reversed" reverses them.
sort_values(s, tb) == SortBy(s, tb, 1)

\* Series.head(n)
head(s, n) == SubSeq(s, 1, Min2(n, Len(s)))

\* top_products
top_products_of(frame, tb) == head(sort_values(groupby_product(frame), tb), TopN)

RECURSIVE EwmLoop(_, _, _, _, _, _)
\* pandas' ewm mean over values without gaps: the running weighted average
EwmLoop(vals, i, weighted, old_wt, acc, adjust) ==
    IF i > Len(vals) THEN acc
    ELSE LET alpha == Frac(2, Span + 1)
             old_wt_factor == FAdd(FInt(1), FMul(FInt(-1), alpha))
             new_wt == IF adjust THEN FInt(1) ELSE alpha
             ow == FMul(old_wt, old_wt_factor)
             w == FDiv(FAdd(FMul(ow, weighted), FMul(new_wt, FInt(vals[i]))),
                       FAdd(ow, new_wt))
         IN  EwmLoop(vals, i + 1, w,
                     IF adjust THEN FAdd(ow, new_wt) ELSE FInt(1),
                     Append(acc, w), adjust)

Ewm(vals, adjust) ==
    IF vals = <<>> THEN <<>>
    ELSE EwmLoop(vals, 2, FInt(vals[1]), FInt(1), <<FInt(vals[1])>>, adjust)

ewm_mean_unadjusted(vals) == Ewm(vals, FALSE)

\* ts.ewm(span=3).mean(): adjust is left at its default, True
ewm_mean(vals) == Ewm(vals, TRUE)

RECURSIVE SortTs(_)
SortTs(S) ==
    IF S = {} THEN <<>>
    ELSE LET m == CHOOSE x \in S : \A y \in S : TsLeq(x, y)
         IN  <<m>> \o SortTs(S \ {m})

\* the value a series holds at index label m, NaT (NaN) when it has none
At(series, m) ==
    IF \E i \in 1..Len(series) : series[i].Month = m
    THEN <<series[CHOOSE i \in 1..Len(series) : series[i].Month = m].value>>
    ELSE NaT

\* pd.concat([ts.rename("Actual"), forecast.rename("Forecast")], axis=1):
\* one row per label of either index, in ascending order
concat_columns(ts, forecast) ==
    LET idx == SortTs({ts[i].Month : i \in 1..Len(ts)}
                      \cup {forecast[i].Month : i \in 1..Len(forecast)})
    IN  [i \in 1..Len(idx) |->
           [Month |-> idx[i],
            Actual |-> At(ts, idx[i]),
            Forecast |-> At(forecast, idx[i])]]

\* TAB 3: the forecast built from monthly_sales
Forecaster(monthly_sales, h) ==
    LET n == Len(monthly_sales)
        ts == [i \in 1..n |->
                 [Month |-> to_timestamp(monthly_sales[i].period),
                  value |-> monthly_sales[i].total]]
        ema == ewm_mean([i \in 1..n |-> monthly_sales[i].total])
    IN  IF n = 0
        THEN \* ema.iloc[-1] on an empty series
             [error |-> "IndexError", last_value |-> NaT, forecast_df |-> <<>>]
        ELSE LET last_value == ema[n]
                 future_dates == date_range_MS(MonthBegin(ts[n].Month), h)
                 forecast == [i \in 1..h |->
                                [Month |-> future_dates[i], value |-> last_value]]
             IN  [error |-> "none", last_value |-> <<last_value>>,
                  forecast_df |-> concat_columns(ts, forecast)]

\* One execution of the script below load_data: the frame bound to df and
\* everything computed from it
Script(frame, ct, dr, h, tb) ==
    LET d == FilterFrame(frame, ct, dr)
        total_sales == SumValueNp(d)
        total_invoices == nunique(d, "InvoiceNo")
        avg_invoice == IF total_invoices # 0
                       THEN Frac(total_sales, total_invoices) ELSE FInt(0)
        monthly_sales == groupby_month(d)
        n == Len(monthly_sales)
        growth == IF n > 1
                  THEN Frac((monthly_sales[n].total - monthly_sales[n - 1].total) * 100,
                            monthly_sales[n - 1].total)
                  ELSE FInt(0)
        fc == Forecaster(monthly_sales, h)
    IN  [df |-> d,
         out |-> [total_sales |-> total_sales,
                  total_invoices |-> total_invoices,
                  avg_invoice |-> avg_invoice,
                  monthly_sales |-> monthly_sales,
                  growth |-> growth,
                  by_distributor |-> groupby_sum(d, "DistributorName"),
                  by_client |-> groupby_sum(d, "ClientType"),
                  top_products |-> top_products_of(d, tb),
                  error |-> fc.error,
                  last_value |-> fc.last_value,
                  forecast_df |-> fc.forecast_df]]

----------------------------------------------------------------------------
(* The state machine *)

TieBreaks == {"stable", "reversed"}
Horizons == MinHorizon..MaxHorizon

\* the options of the multiselect and its default
ClientTypeOptions(frame) == unique(frame, "ClientType")

\* the default of the date picker
DefaultDateRange(frame) == <<DateOf(MinDate(frame)), DateOf(MaxDate(frame))>>

\* the dates a user picks from: the first and the last day with rows
PickerDates(frame) == {DateOf(MinDate(frame)), DateOf(MaxDate(frame))}

RerunOnFilteredFrame(ct, dr, h) ==
    LET r == Script(df, ct, dr, h, tie_break)
    IN  /\ client_type' = ct
        /\ date_range' = dr
        /\ forecast_months' = h
        /\ df' = r.df
        /\ out' = r.out
        /\ UNCHANGED <<cache, tie_break>>

\* A rerun of the script with the widgets at ct, dr, h: df = load_data()
\* returns the cached frame, everything else is recomputed from it
Rerun(ct, dr, h) ==
    LET r == Script(cache, ct, dr, h, tie_break)
    IN  /\ client_type' = ct
        /\ date_range' = dr
        /\ forecast_months' = h
        /\ df' = r.df
        /\ out' = r.out
        /\ UNCHANGED <<cache, tie_break>>

SelectClientType ==
    \E ct \in SUBSET ClientTypeOptions(cache) :
        Rerun(ct, date_range, forecast_months)

PickDateRange ==
    \E s \in PickerDates(cache), e \in PickerDates(cache) :
        Rerun(client_type, <<s, e>>, forecast_months)

SlideHorizon ==
    \E h \in Horizons : Rerun(client_type, date_range, h)

Next == SelectClientType \/ PickDateRange \/ SlideHorizon

\* The first execution on a file: load_data fills the cache, every widget is
\* at its default
FirstRun(raw, tb) ==
    /\ cache = load_data(raw)
    /\ cache # <<>>
    /\ tie_break = tb
    /\ client_type = ClientTypeOptions(cache)
    /\ date_range = DefaultDateRange(cache)
    /\ forecast_months = DefaultHorizon
    /\ LET r == Script(cache, client_type, date_range, forecast_months, tie_break)
       IN  df = r.df /\ out = r.out

----------------------------------------------------------------------------
(* The files the specifications start from *)

SeqsUpTo(S, n) == UNION {[1..k -> S] : k \in 1..n}

Cell(x) == <<x>>

\* Specification Spec: up to MaxRows rows over two months, with and without
\* a time of day, of two client types; a row whose distributor and product
\* are missing; a row whose date and a row whose amount does not parse.
FileRows ==
    {Row("INV1", Cell(x[1]), Cell(x[2]), ct, "D1", "P01") :
        x \in {<<<<2024, 12, 1, 0>>, 1>>,
               <<<<2025, 1, 1, 0>>, 2>>,
               <<<<2025, 1, 1, 12>>, 4>>},
        ct \in {"Retail", "Wholesale"}}
    \cup {Row("INV1", Cell(<<2025, 1, 1, 0>>), Cell(8), "Retail", NaN, NaN),
          Row("INV1", <<>>, Cell(1), "Retail", "D1", "P01"),
          Row("INV1", Cell(<<2025, 1, 1, 0>>), <<>>, "Retail", "D1", "P01")}

Init == \E raw \in SeqsUpTo(FileRows, MaxRows) : FirstRun(raw, "stable")

Spec == Init /\ [][Next]_vars

\* Specification SpecMonthly: one row per month of a non-empty set of up to
\* MaxHistory months ending in December 2024, in chronological or in
\* reverse order, with amounts 100, 200, 300.
HistoryMonths ==
    {to_timestamp(to_period(<<2024, 12, 1, 0>>) - k) : k \in 0..(MaxHistory - 1)}

Reverse(s) == [i \in 1..Len(s) |-> s[Len(s) + 1 - i]]

MonthlyFiles ==
    UNION {
        LET idx == SortTs(M)
        IN  UNION {
              LET file == [i \in 1..Len(idx) |->
                             Row("INV1", Cell(idx[i]), Cell(f[idx[i]]),
                                 "Retail", "D1", "P01")]
              IN  {file, Reverse(file)} :
              f \in [M -> {100, 200, 300}]} :
        M \in (SUBSET HistoryMonths) \ {{}}}

InitMonthly == \E raw \in MonthlyFiles : FirstRun(raw, "stable")

SpecMonthly == InitMonthly /\ [][Next]_vars

\* Specification SpecKpi: up to MaxInvoiceRows rows of one day; invoice
\* numbers repeat and may be missing.
InvoiceRows ==
    {Row(no, Cell(<<2025, 1, 1, 0>>), Cell(v), "Retail", "D1", "P01") :
        no \in {"INV1", "INV2", NaN}, v \in {1, 2}}

InitKpi == \E raw \in SeqsUpTo(InvoiceRows, MaxInvoiceRows) : FirstRun(raw, "stable")

SpecKpi == InitKpi /\ [][Next]_vars

\* Specification SpecTop: one row for each of the first k product names,
\* k from NumProducts - 2 to NumProducts, met in ascending or descending
\* name order; the amounts fall or rise with the name and are distinct
\* except that, for j > 0, product j + 1 has the amount of product j.
TopAmount(k, down, j, p) ==
    LET base(q) == IF down THEN k - q + 1 ELSE q
    IN  IF j > 0 /\ p = j + 1 THEN base(j) ELSE base(p)

TopFile(k, asc, down, j) ==
    [i \in 1..k |->
        LET p == IF asc THEN i ELSE k + 1 - i
        IN  Row("INV1", Cell(<<2025, 1, 1, 0>>), Cell(TopAmount(k, down, j, p)),
                "Retail", "D1", ProductNames[p])]

TopFiles ==
    {TopFile(x[1], x[2], x[3], x[4]) :
        x \in UNION {{k} \X BOOLEAN \X BOOLEAN \X (0..(k - 1)) :
                       k \in (NumProducts - 2)..NumProducts}}

InitTop == \E raw \in TopFiles, tb \in TieBreaks : FirstRun(raw, tb)

SpecTop == InitTop /\ [][Next]_vars

----------------------------------------------------------------------------
(* Helpers of the properties *)

RECURSIVE SumOver(_, _)
\* the sum of f over the set S of its arguments
SumOver(f, S) ==
    IF S = {} THEN 0
    ELSE LET k == CHOOSE x \in S : TRUE
         IN  f[k] + SumOver(f, S \ {k})

RECURSIVE SumTotals(_)
SumTotals(s) == IF s = <<>> THEN 0 ELSE Head(s).total + SumTotals(Tail(s))

DateLeq(a, b) == TsLeq(to_datetime(a), to_datetime(b))

OfClientType(frame, c) == SelectSeq(frame, LAMBDA r : r.ClientType = c)

InInterval(frame, dr) ==
    SelectSeq(frame, LAMBDA r : /\ TsLeq(to_datetime(dr[1]), r.InvoiceDate)
                                /\ TsLeq(r.InvoiceDate, to_datetime(dr[2])))

DefaultControls ==
    /\ client_type = ClientTypeOptions(cache)
    /\ date_range = DefaultDateRange(cache)

----------------------------------------------------------------------------
(* C1: with the default controls (every client type present, the date     *)
(* range from the earliest to the latest InvoiceDate) the filter returns   *)
(* the loaded frame unchanged, the rows of the latest day included.        *)
C1_DefaultFilterIsIdentity == DefaultControls => df = cache

(* C2: when the filtered frame is empty the whole execution completes:    *)
(* the four KPIs are 0, every aggregation is empty and the forecast step   *)
(* does not fail.                                                          *)
C2_EmptyFrameCompletes ==
    df = <<>> =>
        /\ out.total_sales = 0
        /\ out.total_invoices = 0
        /\ out.avg_invoice = FInt(0)
        /\ out.growth = FInt(0)
        /\ out.monthly_sales = <<>>
        /\ DOMAIN out.by_distributor = {}
        /\ DOMAIN out.by_client = {}
        /\ out.top_products = <<>>
        /\ out.error = "none"

(* C5: for each grouping key of the dashboard the group totals add up to  *)
(* total_sales, also when a row has no DistributorName or ProductName.     *)
C5_GroupTotalsConserved ==
    /\ SumOver(out.by_distributor, DOMAIN out.by_distributor) = out.total_sales
    /\ SumOver(out.by_client, DOMAIN out.by_client) = out.total_sales
    /\ LET by_product == groupby_sum(df, "ProductName")
       IN  SumOver(by_product, DOMAIN by_product) = out.total_sales
    /\ SumTotals(out.monthly_sales) = out.total_sales

C10_OutputsFromCacheAndControls ==
    /\ [](LET r == Script(cache, client_type, date_range, forecast_months, tie_break)
          IN  df = r.df /\ out = r.out)
    /\ [][cache' = cache]_vars

\* every widget moved away from its default, the frame narrowed
C10_Witness ==
    /\ client_type # ClientTypeOptions(cache)
    /\ date_range # DefaultDateRange(cache)
    /\ forecast_months # DefaultHorizon
    /\ df # <<>>
    /\ Len(df) < Len(cache)

----------------------------------------------------------------------------
(* The monthly history and the forecast, specification SpecMonthly *)

\* the chronological monthly totals of the last execution
History == [i \in 1..Len(out.monthly_sales) |-> out.monthly_sales[i].total]

\* the rows of forecast_df that carry a projected value
ForecastRows == SelectSeq(out.forecast_df, LAMBDA row : row.Forecast # NaT)

RECURSIVE RecursiveEma(_, _)
\* EMA[1] = v[1], EMA[i] = 0.5 * v[i] + 0.5 * EMA[i - 1]
RecursiveEma(v, i) ==
    IF i = 1 THEN FInt(v[1])
    ELSE FAdd(FMul(<<1, 2>>, FInt(v[i])), FMul(<<1, 2>>, RecursiveEma(v, i - 1)))

RECURSIVE Pow2(_)
Pow2(k) == IF k = 0 THEN 1 ELSE 2 * Pow2(k - 1)

RECURSIVE WeightedSum(_, _)
\* sum over i <= k of 2^(i-1) * v[i]
WeightedSum(v, k) ==
    IF k = 0 THEN 0 ELSE Pow2(k - 1) * v[k] + WeightedSum(v, k - 1)

\* the weighted mean of v with weights 0.5^(n-i):
\* (sum of 0.5^(n-i) * v[i]) / (sum of 0.5^(n-i)), both scaled by 2^(n-1)
AdjustedEma(v) == Frac(WeightedSum(v, Len(v)), Pow2(Len(v)) - 1)

MonthNumber(t) == t[1] * 12 + t[2]

(* C4: for a non-empty history of n months and horizon H, forecast_df has *)
(* n + H rows: the n Actual months, then H Forecast months that are the    *)
(* consecutive calendar months after the last Actual month; no month       *)
(* occurs twice and none is both Actual and Forecast.                      *)
C4_ForecastMonthsContiguous ==
    df # <<>> =>
        LET f == out.forecast_df
            n == Len(out.monthly_sales)
            H == forecast_months
        IN  /\ out.error = "none"
            /\ Len(f) = n + H
            /\ \A i \in 1..Len(f) : (f[i].Actual = NaT) # (f[i].Forecast = NaT)
            /\ \A i \in 1..Len(f), j \in 1..Len(f) :
                  i # j => f[i].Month # f[j].Month
            /\ \A i \in 1..Len(f) :
                  i <= n =>
                      /\ f[i].Actual = <<History[i]>>
                      /\ to_period(f[i].Month) = out.monthly_sales[i].period
            /\ \A i \in 1..Len(f) :
                  i > n =>
                      /\ f[i].Forecast # NaT
                      /\ f[i].Month[2] \in 1..12
                      /\ f[i].Month[3] = 1
                      /\ MonthNumber(f[i].Month) = MonthNumber(f[n].Month) + (i - n)

\* a history with a gap that ends in December, projected twelve months on
C4_Witness ==
    /\ Len(out.monthly_sales) = 2
    /\ out.forecast_df[1].Month = <<2024, 10, 1, 0>>
    /\ out.forecast_df[2].Month = <<2024, 12, 1, 0>>
    /\ forecast_months = 12
    /\ Len(out.forecast_df) = 14
    /\ out.forecast_df[3].Month = <<2025, 1, 1, 0>>
    /\ out.forecast_df[14].Month = <<2025, 12, 1, 0>>

\* the months of the filtered frame and the total of one of them
PeriodsOf(frame) == {to_period(frame[i].InvoiceDate) : i \in 1..Len(frame)}
TotalOf(frame, p) ==
    SumValueNp(SelectSeq(frame, LAMBDA r : to_period(r.InvoiceDate) = p))
Latest(P) == CHOOSE p \in P : \A q \in P : q <= p

(* C8: growth is 0 when the filtered frame has fewer than two months;     *)
(* otherwise, the total of the second-latest month not being 0, it is      *)
(* (last - secondLast) / secondLast * 100 for the two latest months,       *)
(* whatever the order of the rows.                                         *)
C8_GrowthOfTwoLatestMonths ==
    LET P == PeriodsOf(df)
    IN  /\ Cardinality(P) < 2 => out.growth = FInt(0)
        /\ Cardinality(P) >= 2 =>
              LET last == TotalOf(df, Latest(P))
                  secondLast == TotalOf(df, Latest(P \ {Latest(P)}))
              IN  secondLast # 0 =>
                      /\ out.growth[2] # 0
                      /\ out.growth[1] * secondLast
                            = (last - secondLast) * 100 * out.growth[2]

\* three months met latest first, the two latest differing
C8_Witness ==
    /\ Len(df) = 3
    /\ TsLt(df[3].InvoiceDate, df[2].InvoiceDate)
    /\ TsLt(df[2].InvoiceDate, df[1].InvoiceDate)
    /\ df[1].ValueNp = 100
    /\ df[2].ValueNp = 200
    /\ df[3].ValueNp = 300
    /\ out.growth = <<-50, 1>>

----------------------------------------------------------------------------
(* The KPIs, specification SpecKpi *)

(* C7: total_invoices is the number of distinct InvoiceNo values of the   *)
(* filtered frame; avg_invoice * total_invoices = total_sales when         *)
(* total_invoices > 0, avg_invoice = 0 when it is 0; avg_invoice is always *)
(* a number.                                                               *)
C7_InvoiceKpis ==
    LET numbers == {df[i].InvoiceNo : i \in 1..Len(df)} \ {NaN}
    IN  /\ out.total_invoices = Cardinality(numbers)
        /\ out.total_sales = SumValueNp(df)
        /\ out.avg_invoice[2] > 0
        /\ out.total_invoices > 0 =>
              out.avg_invoice[1] * out.total_invoices
                 = out.total_sales * out.avg_invoice[2]
        /\ out.total_invoices = 0 => out.avg_invoice = FInt(0)

\* three rows of two invoices: the average is not a whole number
C7_Witness ==
    /\ Len(df) = 3
    /\ out.total_invoices = 2
    /\ out.total_sales = 5
    /\ out.avg_invoice = <<5, 2>>

----------------------------------------------------------------------------
(* The top products, specification SpecTop *)

ProductsOf(frame) == unique(frame, "ProductName") \ {NaN}
ProductTotal(frame, p) ==
    SumValueNp(SelectSeq(frame, LAMBDA r : r.ProductName = p))
FirstRowOf(frame, p) ==
    CHOOSE i \in 1..Len(frame) :
        /\ frame[i].ProductName = p
        /\ \A j \in 1..(i - 1) : frame[j].ProductName # p

\* top_products holds totals of distinct products in descending order, cut
\* to min(10, number of products), and leaves out no larger total
TopIsSortedCut ==
    LET top == out.top_products
        kept == {top[i].ProductName : i \in 1..Len(top)}
    IN  /\ Len(top) = Min2(TopN, Cardinality(ProductsOf(df)))
        /\ Cardinality(kept) = Len(top)
        /\ \A i \in 1..Len(top) :
              /\ top[i].ProductName \in ProductsOf(df)
              /\ top[i].ValueNp = ProductTotal(df, top[i].ProductName)
        /\ \A i \in 1..Len(top), j \in 1..Len(top) :
              i < j => top[i].ValueNp >= top[j].ValueNp
        /\ \A p \in ProductsOf(df) \ kept :
              \A i \in 1..Len(top) : ProductTotal(df, p) <= top[i].ValueNp

\* products of equal total appear in the order in which the frame first
\* has them
TiesInEncounterOrder ==
    LET top == out.top_products
    IN  \A i \in 1..Len(top), j \in 1..Len(top) :
            i < j /\ top[i].ValueNp = top[j].ValueNp =>
                FirstRowOf(df, top[i].ProductName) < FirstRowOf(df, top[j].ProductName)

(* C9 as stated: top_products is the per-product totals in descending     *)
(* order cut to the first min(10, number of products), no product left out *)
(* having a larger total than one kept, and products of equal total appear *)
(* in the order in which the frame first has them.                         *)
C9_TopTenTiesByEncounter == TopIsSortedCut /\ TiesInEncounterOrder

(* C9 amended: top_products is the per-product totals in descending order *)
(* cut to the first min(10, number of products), no product left out       *)
(* having a larger total than one kept; the order of products of equal     *)
(* total is not the order of first encounter.                              *)
C9_TopTenSortedCut == TopIsSortedCut

\* more than ten products, ten kept, two of equal total kept against their
\* order of first encounter
C9_Witness ==
    /\ Cardinality(ProductsOf(df)) > TopN
    /\ Len(out.top_products) = TopN
    /\ ~TiesInEncounterOrder

====
